---- MODULE Spec2Model ----
(***************************************************************************)
(* State-machine model of the MVP respawn tracker of src/mvp_tracker.py:   *)
(* the registry (mvp_database), the ledger (tracked_mvps), their JSON      *)
(* files, the table renderer and the refresh loops that keep the status    *)
(* message alive; and of the vendor scraper of src/talon_scraper.py and    *)
(* the notification, user and race commands of src/main.py.                *)
(*                                                                         *)
(* Time is an integer number of seconds of home-zone wall clock.  pytz     *)
(* datetimes that share a tzinfo are compared and shifted by wall clock,   *)
(* which is what integer arithmetic on these values does.                  *)
(***************************************************************************)
EXTENDS Integers, Sequences, FiniteSets, TLC

VARIABLES
    mvp_database,    \* MVPTracker.mvp_database: key -> profile
    tracked_mvps,    \* MVPTracker.tracked_mvps: key -> tracking record
    mvp_file,        \* mvp.json
    tracked_file,    \* tracked_mvps.json
    write_failures,  \* number of file writes that have failed so far
    now,             \* datetime.datetime.now(self.pst_tz), in seconds
    result,          \* what the last command returned or raised
    table,           \* what the last generate_tracker_table() returned or raised
    tracker_message, \* MVPTracker.tracker_message: 0 for None, else a message id
    tracker_channel, \* MVPTracker.tracker_channel is set
    messages,        \* status messages that exist in the permatracker channel
    posts,           \* status messages posted so far; ids are 1..posts
    loop,            \* state of the tasks.loop objects update_loop and update_tracker
    tick,            \* the running call of update_tracker_message of each caller
    ready,           \* position of the on_ready handler and the number of its runs
    vendors,         \* rows of the vendors table, in insertion order
    save_result,     \* the last call of TalonTalesScraper.save_to_db: its argument and return value
    ping_users,      \* the ping_users table: user_id -> notify_threshold
    reply,           \* what the last user command sent back
    race_schedule,   \* the next_race column of the race_schedule table, by id
    announced,       \* the scheduled times of the race notifications sent so far
    main_loops,      \* state of the tasks.loop objects check_race_schedule and auto_scrape_vendors
    race_event,      \* the last race operation: what ran, the clock it read, the time it handled
    login,           \* the running or last call of TalonTalesScraper.login
    cycle            \* the last auto_scrape_vendors iteration: how far it got, what it found and sent

ledgerVars == <<mvp_database, tracked_mvps, mvp_file, tracked_file, write_failures, result>>
refreshVars == <<tracker_message, tracker_channel, messages, posts, loop, tick, ready>>
vendorVars == <<vendors, save_result>>
userVars == <<ping_users, reply>>
raceVars == <<race_schedule, announced, main_loops, race_event>>
botVars == <<vendorVars, userVars, raceVars, login, cycle>>
vars == <<mvp_database, tracked_mvps, mvp_file, tracked_file, write_failures, now, result, table,
          tracker_message, tracker_channel, messages, posts, loop, tick, ready, botVars>>

----------------------------------------------------------------------------
(* Bounds of the model *)

MaxWriteFailures == 1

\* instants the clock is observed at: 00:00:30 of day 1, then 23:59:00 and
\* 23:59:30 of the same day
ClockValues == {86430, 172740, 172770}

----------------------------------------------------------------------------
(* Python helpers *)

SecondsPerMinute == 60
SecondsPerDay == 86400

\* slip: the name is used as typed
NotLowered(s) == s

\* str.lower() on the names the operator types
Lower(s) == CASE s = "Eddga" -> "eddga" [] s = "Baphomet" -> "baphomet" [] OTHER -> s

EmptyDict == [k \in {} |-> 0]

\* slip: the dict is replaced by one holding only the new entry
DictSetOnly(d, k, v) == [x \in {k} |-> v]

\* d[k] = v
DictSet(d, k, v) == [x \in (DOMAIN d) \cup {k} |-> IF x = k THEN v ELSE d[x]]

\* del d[k]
DictDel(d, k) == [x \in (DOMAIN d) \ {k} |-> d[x]]

\* slip: the delay is subtracted
SubMinutes(t, m) == t - m * SecondsPerMinute

\* datetime + datetime.timedelta(minutes=m)
AddMinutes(t, m) == t + m * SecondsPerMinute

\* one ':'-separated part of the time argument: a numeral with its value,
\* or text that int() rejects
Num(v) == [kind |-> "int", val |-> v]
Bad == [kind |-> "text", val |-> 0]
\* a numeral int() accepts whose value does not fit the C int that
\* datetime.replace converts its arguments to (2147483648 and up)
Huge == [kind |-> "huge", val |-> 0]

\* time_of_death is the sequence of its ':'-separated parts; None is << >>
NoTime == << >>

\* time arguments the operator passes to track: none, 23:59, and malformed
\* ones (24:00, 12:60, ab:00, 12, 1:2:3, 2147483648:00)
ValidTimeArgs == {NoTime, <<Num(23), Num(59)>>}
BadTimeArgs == {<<Num(24), Num(0)>>, <<Num(12), Num(60)>>, <<Bad, Num(0)>>,
                <<Num(12)>>, <<Num(1), Num(2), Num(3)>>, <<Huge, Num(0)>>}
TimeArgs == ValidTimeArgs \cup BadTimeArgs

\* names as typed by the operator
RawNames == {"Eddga", "eddga", "gtb"}

\* addmvp commands the operator issues: name, downtime, spawn_range
AddInputs == {<<"Eddga", 180, 30>>, <<"eddga", 1500, -10>>, <<"gtb", 0, 0>>}

\* track commands the operator issues: name, time_of_death
TrackInputs == {<<"Eddga", tod>> : tod \in TimeArgs} \cup {<<"eddga", NoTime>>, <<"gtb", NoTime>>}

----------------------------------------------------------------------------
(* Persistence: mvp.json and tracked_mvps.json *)

\* a file is missing, holds text json.load rejects, or holds a document
File(st, d) == [state |-> st, data |-> d]

\* open(..., 'w') followed by json.dump: it succeeds, or open raises (the
\* file keeps its content), or the write raises after open truncated the file
WriteOutcomes(failures) ==
    IF failures < MaxWriteFailures THEN {"ok", "open_failed", "write_failed"} ELSE {"ok"}

FileAfterWrite(old, content, outcome) ==
    CASE outcome = "ok" -> File("ok", content)
      [] outcome = "open_failed" -> old
      [] OTHER -> File("corrupt", EmptyDict)

FailuresAfter(failures, outcome) == IF outcome = "ok" THEN failures ELSE failures + 1

\* datetime.isoformat() of an aware datetime: wall clock and UTC offset
PstOffset == -28800
\* slip: the instant is written as UTC wall clock but labelled with the
\* home-zone offset
IsoFormatShifted(t) == [wall |-> t - PstOffset, utcoffset |-> PstOffset]

IsoFormat(t) == [wall |-> t, utcoffset |-> PstOffset]
\* datetime.fromisoformat(s).astimezone(self.pst_tz)
FromIsoFormat(s) == (s.wall - s.utcoffset) + PstOffset

\* Python's None in a field that otherwise holds an instant (instants are
\* seconds, never negative), and JSON's null in the file
None == -1
JsonNull == [null |-> TRUE]

\* x.isoformat() if x else None
IsoFormatOrNull(x) == IF x = None THEN JsonNull ELSE IsoFormat(x)

\* datetime.fromisoformat(s).astimezone(self.pst_tz) if s else None
FromIsoFormatOrNone(s) == IF s = JsonNull THEN None ELSE FromIsoFormat(s)

\* the document _save_tracked_mvps builds from the ledger
TrackedData(tracked) ==
    [k \in DOMAIN tracked |->
        [tracking_since |-> IsoFormat(tracked[k].tracking_since),
         last_death |-> IsoFormatOrNull(tracked[k].last_death),
         next_spawn_start |-> IsoFormatOrNull(tracked[k].next_spawn_start),
         next_spawn_end |-> IsoFormatOrNull(tracked[k].next_spawn_end)]]

\* _load_tracked_mvps: the ledger it leaves in memory; a missing or
\* undecodable file gives an empty ledger
LoadedTracked(file) ==
    IF file.state = "ok"
    THEN [k \in DOMAIN file.data |->
             [tracking_since |-> FromIsoFormat(file.data[k].tracking_since),
              last_death |-> FromIsoFormatOrNone(file.data[k].last_death),
              next_spawn_start |-> FromIsoFormatOrNone(file.data[k].next_spawn_start),
              next_spawn_end |-> FromIsoFormatOrNone(file.data[k].next_spawn_end)]]
    ELSE EmptyDict

\* _save_mvp_database: the exception of a failed write is printed and dropped
save_mvp_database(db, file, outcome) == FileAfterWrite(file, db, outcome)

\* _save_tracked_mvps
save_tracked_mvps(tracked, file, outcome) == FileAfterWrite(file, TrackedData(tracked), outcome)

\* _load_mvp_database: the registry it leaves in memory
LoadedDatabase(file) == IF file.state = "ok" THEN file.data ELSE EmptyDict

\* _load_mvp_database: a missing or undecodable file is rewritten as {}
load_mvp_database(outcome) ==
    /\ mvp_database' = LoadedDatabase(mvp_file)
    /\ IF mvp_file.state = "ok"
       THEN /\ outcome = "ok"
            /\ UNCHANGED <<mvp_file, write_failures>>
       ELSE /\ mvp_file' = save_mvp_database(EmptyDict, mvp_file, outcome)
            /\ write_failures' = FailuresAfter(write_failures, outcome)

----------------------------------------------------------------------------
(* Commands *)

\* a command's reply: the name as typed, the key it was folded to, the time
\* argument, and the message returned or the exception raised
Result(op, raw, tod, msg) == [op |-> op, raw |-> raw, name |-> Lower(raw), tod |-> tod, msg |-> msg]

\* MVPTracker.add_mvp, called by the addmvp command
add_mvp(raw, downtime, spawn_range) ==
    LET mvp_name == Lower(raw) IN
    \E outcome \in WriteOutcomes(write_failures) :
        /\ mvp_database' = DictSet(mvp_database, mvp_name,
                                   [name |-> mvp_name, downtime |-> downtime, spawn_range |-> spawn_range])
        /\ mvp_file' = save_mvp_database(mvp_database', mvp_file, outcome)
        /\ write_failures' = FailuresAfter(write_failures, outcome)
        /\ result' = Result("addmvp", raw, NoTime, "Added/Updated")
        /\ UNCHANGED <<tracked_mvps, tracked_file, now, table>>
        /\ UNCHANGED <<refreshVars, botVars>>

\* hours, minutes = map(int, time_of_death.split(':')) followed by
\* now.replace(hour=hours, minute=minutes, second=0, microsecond=0)
ParseError(tod) ==
    IF Len(tod) # 2 THEN "ValueError"
    ELSE IF \E i \in 1..2 : tod[i].kind = "text" THEN "ValueError"
    ELSE IF \E i \in 1..2 : tod[i].kind = "huge" THEN "OverflowError"
    ELSE IF tod[1].val \notin 0..23 \/ tod[2].val \notin 0..59 THEN "ValueError"
    ELSE "none"

Midnight(t) == (t \div SecondsPerDay) * SecondsPerDay

Replace(t, hours, minutes) == Midnight(t) + hours * 3600 + minutes * SecondsPerMinute

\* slip: a death at this very minute is moved to yesterday
DeathTimeShiftsEqual(tod, t) ==
    IF tod = NoTime THEN t
    ELSE LET death_time == Replace(t, tod[1].val, tod[2].val) IN
         IF death_time >= t THEN death_time - SecondsPerDay ELSE death_time

\* the death time track records for a time argument that parses
DeathTime(tod, t) ==
    IF tod = NoTime THEN t
    ELSE LET death_time == Replace(t, tod[1].val, tod[2].val) IN
         IF death_time > t THEN death_time - SecondsPerDay ELSE death_time

\* slip: the window opens after the spawn range
next_spawn_start_range(death_time, mvp_info) == AddMinutes(death_time, mvp_info.spawn_range)

next_spawn_start(death_time, mvp_info) == AddMinutes(death_time, mvp_info.downtime)

\* slip: the window is made as wide as the downtime
next_spawn_end_downtime(spawn_start, mvp_info) == AddMinutes(spawn_start, mvp_info.downtime)

next_spawn_end(spawn_start, mvp_info) == AddMinutes(spawn_start, mvp_info.spawn_range)

\* slip: the record is created empty, to be filled by the first death
TrackRecordEmpty(t, death_time, mvp_info) ==
    [tracking_since |-> t, last_death |-> None, next_spawn_start |-> None, next_spawn_end |-> None]

TrackRecord(t, death_time, mvp_info) ==
    [tracking_since |-> t,
     last_death |-> death_time,
     next_spawn_start |-> next_spawn_start(death_time, mvp_info),
     next_spawn_end |-> next_spawn_end(next_spawn_start(death_time, mvp_info), mvp_info)]

\* MVPTracker.track, called by the track command
track(raw, tod) ==
    LET mvp_name == Lower(raw)
        err == IF tod = NoTime THEN "none" ELSE ParseError(tod)
    IN  /\ UNCHANGED <<mvp_database, mvp_file, now, table>>
        /\ UNCHANGED <<refreshVars, botVars>>
        /\ IF mvp_name \notin DOMAIN mvp_database
           THEN /\ result' = Result("track", raw, tod, "not found in database")
                /\ UNCHANGED <<tracked_mvps, tracked_file, write_failures>>
           ELSE IF err = "ValueError"
           THEN /\ result' = Result("track", raw, tod, "Invalid time format")
                /\ UNCHANGED <<tracked_mvps, tracked_file, write_failures>>
           ELSE IF err # "none"
           THEN /\ result' = Result("track", raw, tod, err)
                /\ UNCHANGED <<tracked_mvps, tracked_file, write_failures>>
           ELSE \E outcome \in WriteOutcomes(write_failures) :
                /\ tracked_mvps' = DictSet(tracked_mvps, mvp_name,
                                           TrackRecord(now, DeathTime(tod, now), mvp_database[mvp_name]))
                /\ tracked_file' = save_tracked_mvps(tracked_mvps', tracked_file, outcome)
                /\ write_failures' = FailuresAfter(write_failures, outcome)
                /\ result' = Result("track", raw, tod, "Now tracking")

\* slip: no test that the boss is tracked, del raises KeyError
remove_unguarded(raw) ==
    LET mvp_name == Lower(raw) IN
    /\ UNCHANGED <<mvp_database, mvp_file, now, table>>
    /\ UNCHANGED <<refreshVars, botVars>>
    /\ IF mvp_name \in DOMAIN tracked_mvps
       THEN \E outcome \in WriteOutcomes(write_failures) :
            /\ tracked_mvps' = DictDel(tracked_mvps, mvp_name)
            /\ tracked_file' = save_tracked_mvps(tracked_mvps', tracked_file, outcome)
            /\ write_failures' = FailuresAfter(write_failures, outcome)
            /\ result' = Result("remove", raw, NoTime,
                                IF mvp_name \in DOMAIN mvp_database
                                THEN "Removed from tracker" ELSE "KeyError")
       ELSE /\ result' = Result("remove", raw, NoTime, "KeyError")
            /\ UNCHANGED <<tracked_mvps, tracked_file, write_failures>>

\* MVPTracker.remove, called by the remove command
remove(raw) ==
    LET mvp_name == Lower(raw) IN
    /\ UNCHANGED <<mvp_database, mvp_file, now, table>>
    /\ UNCHANGED <<refreshVars, botVars>>
    /\ IF mvp_name \in DOMAIN tracked_mvps
       THEN \E outcome \in WriteOutcomes(write_failures) :
            /\ tracked_mvps' = DictDel(tracked_mvps, mvp_name)
            /\ tracked_file' = save_tracked_mvps(tracked_mvps', tracked_file, outcome)
            /\ write_failures' = FailuresAfter(write_failures, outcome)
            /\ result' = Result("remove", raw, NoTime,
                                IF mvp_name \in DOMAIN mvp_database
                                THEN "Removed from tracker" ELSE "KeyError")
       ELSE /\ result' = Result("remove", raw, NoTime, "is not being tracked")
            /\ UNCHANGED <<tracked_mvps, tracked_file, write_failures>>

\* MVPTracker.delete_mvp, called by the deletemvp command
delete_mvp(raw) ==
    LET mvp_name == Lower(raw) IN
    /\ UNCHANGED <<now, table>>
    /\ UNCHANGED <<refreshVars, botVars>>
    /\ IF mvp_name \in DOMAIN mvp_database
       THEN \E o1 \in (IF mvp_name \in DOMAIN tracked_mvps
                       THEN WriteOutcomes(write_failures) ELSE {"ok"}) :
            \E o2 \in WriteOutcomes(FailuresAfter(write_failures, o1)) :
            /\ mvp_database' = DictDel(mvp_database, mvp_name)
            /\ IF mvp_name \in DOMAIN tracked_mvps
               THEN /\ tracked_mvps' = DictDel(tracked_mvps, mvp_name)
                    /\ tracked_file' = save_tracked_mvps(tracked_mvps', tracked_file, o1)
               ELSE UNCHANGED <<tracked_mvps, tracked_file>>
            /\ mvp_file' = save_mvp_database(mvp_database', mvp_file, o2)
            /\ write_failures' = FailuresAfter(FailuresAfter(write_failures, o1), o2)
            /\ result' = Result("deletemvp", raw, NoTime, "Deleted from database")
       ELSE /\ result' = Result("deletemvp", raw, NoTime, "not found in database")
            /\ UNCHANGED <<mvp_database, tracked_mvps, mvp_file, tracked_file, write_failures>>

\* the mvplist command: reload the registry from mvp.json, then list it
mvp_list ==
    /\ \E outcome \in WriteOutcomes(write_failures) : load_mvp_database(outcome)
    /\ result' = Result("mvplist", "", NoTime,
                        IF DOMAIN mvp_database' = {} THEN "No MVPs in database" ELSE "MVP Database")
    /\ UNCHANGED <<tracked_mvps, tracked_file, now, table>>
    /\ UNCHANGED <<refreshVars, botVars>>

\* the bot is started again: MVPTracker.__init__ loads both files
restart ==
    /\ \E outcome \in WriteOutcomes(write_failures) : load_mvp_database(outcome)
    /\ tracked_mvps' = LoadedTracked(tracked_file)
    /\ result' = Result("restart", "", NoTime, "")
    /\ UNCHANGED <<tracked_file, now, table>>
    /\ UNCHANGED <<refreshVars, botVars>>

\* time passes between commands
ClockAdvance ==
    /\ \E t \in ClockValues : t > now /\ now' = t
    /\ UNCHANGED <<ledgerVars, table>>
    /\ UNCHANGED <<refreshVars, botVars>>

----------------------------------------------------------------------------
(* Rendering: MVPTracker.generate_tracker_table *)

\* int(x / 60) for a whole number of seconds x: int() drops the fraction,
\* towards zero
IntDivSixty(x) == IF x >= 0 THEN x \div SecondsPerMinute ELSE -((-x) \div SecondsPerMinute)

\* slip: time_remaining.seconds // 60, which drops whole days
minutes_remaining_seconds(time_remaining) == (time_remaining % SecondsPerDay) \div SecondsPerMinute

\* int(time_remaining.total_seconds() / 60)
minutes_remaining(time_remaining) == IntDivSixty(time_remaining)

\* the status cell of one row
status(t, track_data) ==
    IF track_data.last_death = None
    THEN [kind |-> "No record", minutes |-> 0]
    ELSE IF t < track_data.next_spawn_start
    THEN [kind |-> "Pending", minutes |-> minutes_remaining(track_data.next_spawn_start - t)]
    ELSE IF track_data.next_spawn_start <= t /\ t <= track_data.next_spawn_end
    THEN [kind |-> "Open", minutes |-> minutes_remaining(track_data.next_spawn_end - t)]
    ELSE [kind |-> "Overdue", minutes |-> 0]

\* len() of the names the operator types, lower-cased
NameLen(k) == Len(k)

SetMax(S) == CHOOSE m \in S : \A x \in S : x <= m

\* slip: the floor of 4 (the header "MVP" and its padding) is left out
max_name_len_no_floor(tracked) == SetMax({NameLen(k) : k \in DOMAIN tracked})

max_name_len(tracked) == SetMax({NameLen(k) : k \in DOMAIN tracked} \cup {4})

\* what generate_tracker_table returns at time t: the fixed text for an
\* empty ledger, a KeyError when a tracked boss has no profile, or the table
TrackerTable(t, tracked, db) ==
    IF DOMAIN tracked = {}
    THEN [kind |-> "No MVPs currently being tracked", width |-> 0, rows |-> EmptyDict]
    ELSE IF \E k \in DOMAIN tracked : k \notin DOMAIN db
    THEN [kind |-> "KeyError", width |-> 0, rows |-> EmptyDict]
    ELSE [kind |-> "table", width |-> max_name_len(tracked),
          rows |-> [k \in DOMAIN tracked |-> status(t, tracked[k])]]

\* a call of generate_tracker_table, its return value observed
generate_tracker_table ==
    /\ table' = [at |-> now] @@ TrackerTable(now, tracked_mvps, mvp_database)
    /\ result' = Result("table", "", NoTime, table'.kind)
    /\ UNCHANGED <<mvp_database, tracked_mvps, mvp_file, tracked_file, write_failures, now>>
    /\ UNCHANGED <<refreshVars, botVars>>

----------------------------------------------------------------------------
(* The refresh loops: update_loop (15 s, started by initialize_permatracker) *)
(* and update_tracker (30 s, started by on_ready) both run                  *)
(* MVPTracker.update_tracker_message, and so does the refresh command.      *)

MaxPosts == 3
MaxReady == 1

Loops == {"update_loop", "update_tracker"}
Callers == Loops \cup {"refresh"}

\* one call of update_tracker_message: where it stands, the message its
\* edit went to, what the edit reported, the posts it issued, the message
\* its post returned, whether no later call has begun an edit since, and
\* whether the caller went into update_tracker_message or refused to
IdleTick == [pc |-> "idle", target |-> 0, edit |-> "none", sends |-> 0, posted |-> 0,
             fresh |-> FALSE, called |-> "none"]

\* discord.ext.tasks.Loop.start: a loop that is not running is (re)started
started(l) == [loop EXCEPT ![l] = "running"]

\* discord.ext.tasks.Loop._loop when the coroutine raises: OSError and the
\* like are retried, any other exception goes to the error handler and ends
\* the loop
loop_after_exception(state, exception) ==
    IF exception = "ConnectionError" THEN state ELSE "failed"

\* outcomes of channel.send / message.edit besides success and NotFound
SinkErrors == {"HTTPException", "ConnectionError"}

\* channel.send that succeeds: a new message exists
NewMessage == posts + 1
Post ==
    /\ posts < MaxPosts
    /\ posts' = NewMessage
    /\ messages' = messages \cup {NewMessage}

\* self.tracker_message = await self.tracker_channel.send(...)
held_after_repost(held, message) == message

\* on_ready, first part: MVPTracker.initialize_permatracker(bot)
initialize_permatracker ==
    /\ ready.pc = "off"
    /\ ready.runs < MaxReady
    /\ table' = [at |-> now] @@ TrackerTable(now, tracked_mvps, mvp_database)
    /\ \/ \* the channel is found, the message is posted or edited
          /\ table'.kind # "KeyError"
          /\ IF tracker_message = 0
             THEN /\ Post
                  /\ tracker_message' = NewMessage
             ELSE /\ tracker_message \in messages
                  /\ UNCHANGED <<tracker_message, posts, messages>>
          /\ tracker_channel' = TRUE
          /\ loop' = IF loop["update_loop"] # "running" THEN started("update_loop") ELSE loop
          /\ ready' = [pc |-> "time", runs |-> ready.runs + 1]
       \/ \* bot.get_channel returns None, or send / edit / render raises:
          \* initialize_permatracker returns False
          /\ UNCHANGED <<tracker_message, tracker_channel, posts, messages, loop>>
          /\ ready' = [pc |-> "time", runs |-> ready.runs + 1]
    /\ UNCHANGED <<botVars, ledgerVars, now, tick>>

\* on_ready, second part: the channel lookup and the time message
on_ready_time_message ==
    /\ ready.pc = "time"
    /\ \/ ready' = [ready EXCEPT !.pc = "tracker"]
       \/ \* no channel, or channel.send raises: on_ready ends
          ready' = [ready EXCEPT !.pc = "off"]
    /\ UNCHANGED <<botVars, ledgerVars, now, table, tracker_message, tracker_channel, messages, posts, loop, tick>>

\* on_ready, third part: the tracker message and the loops
on_ready_tracker_message ==
    /\ ready.pc = "tracker"
    /\ table' = [at |-> now] @@ TrackerTable(now, tracked_mvps, mvp_database)
    /\ ready' = [ready EXCEPT !.pc = "off"]
    /\ \/ /\ table'.kind # "KeyError"
          /\ Post
          /\ tracker_message' = NewMessage
          /\ tracker_channel' = TRUE
          \* update_tracker.start() raises RuntimeError when it is running
          /\ loop' = IF loop["update_tracker"] # "running" THEN started("update_tracker") ELSE loop
       \/ \* channel.send or the render raises
          UNCHANGED <<tracker_message, tracker_channel, posts, messages, loop>>
    /\ UNCHANGED <<botVars, ledgerVars, now, tick>>

\* update_tracker_message up to its await of tracker_message.edit
BeginUpdate(c) ==
    /\ tick[c].pc = "idle"
    /\ table' = [at |-> now] @@ TrackerTable(now, tracked_mvps, mvp_database)
    /\ IF tracker_message # 0 /\ tracker_channel /\ table'.kind # "KeyError"
       THEN tick' = [d \in Callers |->
                        IF d = c
                        THEN [IdleTick EXCEPT !.pc = "edit", !.target = tracker_message,
                                              !.edit = "pending", !.called = "update"]
                        ELSE [tick[d] EXCEPT !.fresh = FALSE]]
       ELSE tick' = [tick EXCEPT ![c] = [IdleTick EXCEPT !.called = "update"]]
    /\ UNCHANGED <<botVars, ledgerVars, now, tracker_message, tracker_channel, messages, posts, loop, ready>>

\* one iteration of a tasks.loop starts
loop_iteration(l) ==
    /\ loop[l] = "running"
    /\ BeginUpdate(l)

\* the refresh command (in the permatracker channel or in another one)
refresh_command(in_permatracker) ==
    IF in_permatracker
    THEN BeginUpdate("refresh")
    ELSE /\ tick["refresh"].pc = "idle"
         /\ tick' = [tick EXCEPT !["refresh"] = [IdleTick EXCEPT !.called = "refused"]]
         /\ UNCHANGED <<botVars, ledgerVars, now, table, tracker_message, tracker_channel, messages, posts,
                        loop, ready>>

\* the await of tracker_message.edit returns or raises
edit_returns(c) ==
    /\ tick[c].pc = "edit"
    /\ \/ /\ tick[c].target \in messages
          /\ tick' = [tick EXCEPT ![c].pc = "idle", ![c].edit = "ok"]
       \/ \* except discord.NotFound: post a new message
          /\ tick[c].target \notin messages
          /\ tick' = [tick EXCEPT ![c].pc = "send", ![c].edit = "NotFound",
                                  ![c].sends = tick[c].sends + 1]
       \/ \* except Exception: printed
          /\ tick' = [tick EXCEPT ![c].pc = "idle", ![c].edit = "error"]
    /\ UNCHANGED <<botVars, ledgerVars, now, table, tracker_message, tracker_channel, messages, posts, loop, ready>>

\* the await of tracker_channel.send in the NotFound handler returns
send_returns(c) ==
    /\ tick[c].pc = "send"
    /\ Post
    /\ tracker_message' = held_after_repost(tracker_message, NewMessage)
    /\ tick' = [tick EXCEPT ![c].pc = "idle", ![c].posted = NewMessage, ![c].fresh = TRUE]
    /\ UNCHANGED <<botVars, ledgerVars, now, table, tracker_channel, loop, ready>>

\* the await of tracker_channel.send in the NotFound handler raises: the
\* exception leaves update_tracker_message
send_raises(c) ==
    /\ tick[c].pc = "send"
    /\ \E exception \in SinkErrors :
          loop' = IF c \in Loops
                  THEN [loop EXCEPT ![c] = loop_after_exception(loop[c], exception)]
                  ELSE loop
    /\ tick' = [tick EXCEPT ![c].pc = "idle"]
    /\ UNCHANGED <<botVars, ledgerVars, now, table, tracker_message, tracker_channel, messages, posts, ready>>

\* somebody deletes a status message in the channel
delete_message ==
    /\ \E m \in messages : messages' = messages \ {m}
    /\ UNCHANGED <<botVars, ledgerVars, now, table, tracker_message, tracker_channel, posts, loop, tick, ready>>


----------------------------------------------------------------------------
(* The vendors table: TalonTalesScraper.save_to_db *)

\* a scraped listing, as far as the notifications use it
Listing(item_name, price) == [item_name |-> item_name, price |-> price]

\* what sqlite can do to the statements of save_to_db: all succeed, the
\* DELETE raises, or the INSERT raises (also when building a row raises)
DbOutcomes == {"ok", "delete_failed", "insert_failed"}

\* cursor.execute("DELETE FROM vendors")
delete_from_vendors(rows) == << >>

\* cursor.executemany("INSERT INTO vendors ...", data)
insert_into_vendors(rows, data) == rows \o data

\* the table as the open transaction sees it when the with block is left
transaction(rows, data, outcome) ==
    CASE outcome = "delete_failed" -> rows
      [] outcome = "insert_failed" -> delete_from_vendors(rows)
      [] OTHER -> insert_into_vendors(delete_from_vendors(rows), data)

\* slip: the connection runs in autocommit mode, every statement is final
connection_exit_autocommit(rows, working, outcome) == working

\* sqlite3.Connection.__exit__: commit when the block ended normally, roll
\* back when it raised
connection_exit(rows, working, outcome) == IF outcome = "ok" THEN working ELSE rows

\* the vendors table after save_to_db(data)
saved_vendors(rows, data, outcome) ==
    IF data = << >> THEN rows
    ELSE connection_exit(rows, transaction(rows, data, outcome), outcome)

\* the value save_to_db(data) returns
save_returns(data, outcome) == data # << >> /\ outcome = "ok"

\* the listings a scrape can bring
SaveInputs ==
    {<< >>,
     <<Listing("Elunium", 80)>>,
     <<Listing("Elunium", 80), Listing("Elunium", 120)>>,
     <<Listing("Oridecon", 40), Listing("Oridecon", 160)>>,
     <<Listing("Elunium", 81), Listing("Elunium", 122),
       Listing("Oridecon", 45), Listing("Oridecon", 155)>>}

\* TalonTalesScraper.save_to_db
save_to_db(data) ==
    /\ \E outcome \in DbOutcomes :
          /\ vendors' = saved_vendors(vendors, data, outcome)
          /\ save_result' = [data |-> data, ret |-> save_returns(data, outcome),
                             outcome |-> IF data = << >> THEN "none" ELSE outcome]
    /\ UNCHANGED <<ledgerVars, refreshVars, now, table, userVars, raceVars, login, cycle>>

----------------------------------------------------------------------------
(* The user commands of main.py: add_user, edit_user, remove_user *)

\* the commands' arguments: two users, thresholds around the accepted range
UserIds == {1001, 1002}
Thresholds == {49, 50, 55, 60, 61}

Reply(op, user, threshold, msg) == [op |-> op, user |-> user, threshold |-> threshold, msg |-> msg]

\* slip: only the lower end of the range is tested
threshold_rejected_low_only(notify_threshold) == notify_threshold < 50

\* if notify_threshold < 50 or notify_threshold > 60
threshold_rejected(notify_threshold) == notify_threshold < 50 \/ notify_threshold > 60

\* db_execute returns cursor.lastrowid of a cursor on a new connection: the
\* rowid of the row an INSERT or REPLACE wrote, and 0 after any other
\* statement, whatever number of rows it changed
lastrowid(statement, rowid) == IF statement = "INSERT" THEN rowid ELSE 0

\* if affected: (a number is true unless it is 0)
Truthy(n) == n # 0

\* db_execute either runs and commits the statement or raises
QueryOutcomes == {"ok", "error"}

add_user(user, notify_threshold) ==
    /\ IF threshold_rejected(notify_threshold)
       THEN /\ reply' = Reply("add_user", user, notify_threshold, "Threshold must be between 50-60%")
            /\ UNCHANGED ping_users
       ELSE \E outcome \in QueryOutcomes :
            IF outcome = "ok"
            THEN /\ ping_users' = DictSet(ping_users, user, notify_threshold)
                 /\ reply' = Reply("add_user", user, notify_threshold, "added")
            ELSE /\ reply' = Reply("add_user", user, notify_threshold, "Failed to add user!")
                 /\ UNCHANGED ping_users
    /\ UNCHANGED <<ledgerVars, refreshVars, now, table, vendorVars, raceVars, login, cycle>>

edit_user(user, notify_threshold) ==
    /\ IF threshold_rejected(notify_threshold)
       THEN /\ reply' = Reply("edit_user", user, notify_threshold, "Threshold must be between 50-60%")
            /\ UNCHANGED ping_users
       ELSE \E outcome \in QueryOutcomes :
            IF outcome = "ok"
            THEN LET affected == lastrowid("UPDATE", user) IN
                 /\ ping_users' = IF user \in DOMAIN ping_users
                                  THEN DictSet(ping_users, user, notify_threshold)
                                  ELSE ping_users
                 /\ reply' = Reply("edit_user", user, notify_threshold,
                                   IF Truthy(affected) THEN "updated"
                                   ELSE "User not found in database!")
            ELSE /\ reply' = Reply("edit_user", user, notify_threshold, "Failed to edit user!")
                 /\ UNCHANGED ping_users
    /\ UNCHANGED <<ledgerVars, refreshVars, now, table, vendorVars, raceVars, login, cycle>>

remove_user(user) ==
    /\ \E outcome \in QueryOutcomes :
          IF outcome = "ok"
          THEN LET affected == lastrowid("DELETE", user) IN
               /\ ping_users' = DictDel(ping_users, user)
               /\ reply' = Reply("remove_user", user, 0,
                                 IF Truthy(affected) THEN "removed"
                                 ELSE "User not found in database!")
          ELSE /\ reply' = Reply("remove_user", user, 0, "Failed to remove user!")
               /\ UNCHANGED ping_users
    /\ UNCHANGED <<ledgerVars, refreshVars, now, table, vendorVars, raceVars, login, cycle>>

----------------------------------------------------------------------------
(* The race schedule of main.py: on_ready, set_race_time, check_race_schedule *)

MainLoops == {"check_race_schedule", "auto_scrape_vendors"}

RaceEvent(op, at, time) == [op |-> op, at |-> at, time |-> time]

\* the names bound at module level in main.py when a task runs
MainGlobals == {"TOKEN", "TALON_USERNAME", "TALON_PASSWORD", "DB_NAME", "logger", "bot",
                "scraper", "ITEM_DB", "MONSTER_DB"}

\* evaluating a global name: its value, or NameError
name_lookup(name) == IF name \in MainGlobals THEN "value" ELSE "NameError"

\* the clock readings of the race operations and the arguments of setrace
RaceClockValues == {100000, 158400, 158460, 172800, 244860}
RaceTimes == {<<20, 0>>, <<0, 0>>}

\* ORDER BY id DESC LIMIT 1
latest_race(schedule) == schedule[Len(schedule)]

\* race_time + timedelta(days=1)
next_race_after(race_time) == race_time + SecondsPerDay

\* on_ready of main.py: bot.load_extension("mvp_tracker") raises (the module
\* of this repository defines no setup entry point) and the handler logs it,
\* or, with an extension that loads, the two loops are started in turn;
\* Loop.start() on a running loop raises RuntimeError, which ends the handler
main_on_ready ==
    /\ \/ UNCHANGED main_loops
       \/ main_loops' =
              IF main_loops["check_race_schedule"] = "running" THEN main_loops
              ELSE [l \in MainLoops |-> "running"]
    /\ race_event' = RaceEvent("on_ready", now, 0)
    /\ UNCHANGED <<ledgerVars, refreshVars, now, table, vendorVars, userVars, race_schedule, announced,
                   login, cycle>>

\* the setrace command; a failed INSERT raises out of the command
set_race_time(hours, minutes) ==
    /\ \E t \in RaceClockValues :
          /\ t > now
          /\ now' = t
          /\ LET today == Replace(t, hours, minutes)
                 next_race == IF today < t THEN today + SecondsPerDay ELSE today
             IN  /\ \E outcome \in QueryOutcomes :
                        race_schedule' = IF outcome = "ok" THEN Append(race_schedule, next_race)
                                         ELSE race_schedule
                 /\ race_event' = RaceEvent("setrace", t, next_race)
    /\ UNCHANGED <<ledgerVars, refreshVars, table, vendorVars, userVars, announced, main_loops, login, cycle>>

\* one iteration of the check_race_schedule loop. When a race is due the
\* argument of bot.get_channel is evaluated first; an exception that leaves
\* the coroutine ends the loop
check_race_schedule ==
    /\ main_loops["check_race_schedule"] = "running"
    /\ \E t \in RaceClockValues :
          /\ t > now
          /\ now' = t
          /\ IF race_schedule = << >>
             THEN /\ race_event' = RaceEvent("tick", t, 0)
                  /\ UNCHANGED <<race_schedule, announced, main_loops>>
             ELSE LET race_time == latest_race(race_schedule) IN
                  /\ race_event' = RaceEvent("tick", t, race_time)
                  /\ IF t < race_time
                     THEN UNCHANGED <<race_schedule, announced, main_loops>>
                     ELSE IF name_lookup("YOUR_NOTIFICATION_CHANNEL_ID") = "NameError"
                     THEN /\ main_loops' = [main_loops EXCEPT !["check_race_schedule"] =
                                               loop_after_exception(@, "NameError")]
                          /\ UNCHANGED <<race_schedule, announced>>
                     ELSE \E channel \in BOOLEAN, outcome \in QueryOutcomes :
                          /\ announced' = IF channel THEN Append(announced, race_time) ELSE announced
                          /\ race_schedule' = IF outcome = "ok"
                                              THEN Append(race_schedule, next_race_after(race_time))
                                              ELSE race_schedule
                          /\ main_loops' = IF outcome = "ok" THEN main_loops
                                           ELSE [main_loops EXCEPT !["check_race_schedule"] =
                                                    loop_after_exception(@, "sqlite3.Error")]
    /\ UNCHANGED <<ledgerVars, refreshVars, table, vendorVars, userVars, login, cycle>>

----------------------------------------------------------------------------
(* TalonTalesScraper.login *)

max_retries == 3

\* how one pass through the body of the for loop ends: an exception (a
\* request fails, raise_for_status, the referer input is missing), continue
\* for a missing form or nonce, the end of the body when the response has no
\* logout marker, or return True
AttemptOutcomes == {"exception", "no_form", "no_nonce", "no_logout", "logged_in"}

\* slip: the loop runs while attempt <= max_retries
in_range_inclusive(attempt) == attempt <= max_retries

\* for attempt in range(max_retries): another pass is made
in_range(attempt) == attempt < max_retries

\* scraper.login(username, password) is called
login_call ==
    /\ login.pc \in {"idle", "returned"}
    /\ login' = [pc |-> "running", attempt |-> 0, log |-> << >>, ret |-> FALSE]
    /\ UNCHANGED <<ledgerVars, refreshVars, now, table, vendorVars, userVars, raceVars, cycle>>

\* one pass through the loop body
login_attempt ==
    /\ login.pc = "running"
    /\ in_range(login.attempt)
    /\ \E outcome \in AttemptOutcomes :
          login' = [pc |-> IF outcome = "logged_in" THEN "returned" ELSE "running",
                    attempt |-> login.attempt + 1,
                    log |-> Append(login.log, outcome),
                    ret |-> outcome = "logged_in"]
    /\ UNCHANGED <<ledgerVars, refreshVars, now, table, vendorVars, userVars, raceVars, cycle>>

\* the range is exhausted: "All login attempts failed", return False
login_gives_up ==
    /\ login.pc = "running"
    /\ ~ in_range(login.attempt)
    /\ login' = [login EXCEPT !.pc = "returned", !.ret = FALSE]
    /\ UNCHANGED <<ledgerVars, refreshVars, now, table, vendorVars, userVars, raceVars, cycle>>

----------------------------------------------------------------------------
(* The auto-scrape cycle of main.py: auto_scrape_vendors *)

\* an iteration: where it ended, the listings scraped, the bargains found,
\* the users read from ping_users, the DM sent to each user and the users
\* whose DM raised
Cycle(stage, data, bargains, users, dms, failed) ==
    [stage |-> stage, data |-> data, bargains |-> bargains, users |-> users, dms |-> dms,
     failed |-> failed]

RECURSIVE price_sum(_, _)
price_sum(rows, item_name) ==
    IF rows = << >> THEN 0
    ELSE (IF Head(rows).item_name = item_name THEN Head(rows).price ELSE 0)
         + price_sum(Tail(rows), item_name)

price_count(rows, item_name) ==
    Cardinality({i \in 1..Len(rows) : rows[i].item_name = item_name})

\* stats[item_name]['avg']: int(AVG(price)) over the rows of the item, and
\* no entry (here 0) for an item without rows
avg_price(rows, item_name) ==
    IF price_count(rows, item_name) = 0 THEN 0
    ELSE price_sum(rows, item_name) \div price_count(rows, item_name)

\* item_stats.get('avg') and vendor['price'] <= (item_stats['avg'] * 0.8)
is_bargain(price, avg) == avg # 0 /\ 10 * price <= 8 * avg

\* the pairs (price, avg) among this model's listings for which the double
\* (1 - price / avg) * 100 lies just below the whole number it should be:
\* (1 - 80 / 100) * 100 is 19.999999999999996
RoundsBelow(price, avg) == <<price, avg>> \in {<<80, 100>>}

\* int((1 - (vendor['price'] / item_stats['avg'])) * 100), for price <= avg
discount(price, avg) ==
    LET exact == ((avg - price) * 100) \div avg IN
    IF RoundsBelow(price, avg) THEN exact - 1 ELSE exact

\* the bargains list: the listings that qualify, in the order scraped, each
\* with its discount
find_bargains(vendor_data, rows) ==
    LET priced == [i \in 1..Len(vendor_data) |->
                      LET avg == avg_price(rows, vendor_data[i].item_name) IN
                      [item_name |-> vendor_data[i].item_name,
                       price |-> vendor_data[i].price,
                       avg |-> avg,
                       discount |-> IF avg = 0 THEN 0 ELSE discount(vendor_data[i].price, avg)]]
        Qualifies(b) == is_bargain(b.price, b.avg)
    IN  SelectSeq(priced, Qualifies)

\* [b for b in bargains if b['discount'] >= threshold]
user_bargains(bargains, threshold) ==
    LET Meets(b) == b.discount >= threshold IN SelectSeq(bargains, Meets)

\* sorted(user_bargains, key=discount, reverse=True)[:3], as the set of the
\* positions kept: a bargain is kept when fewer than three come before it in
\* the stable descending order
top_three(bs) ==
    {i \in 1..Len(bs) :
        Cardinality({j \in 1..Len(bs) :
                        \/ bs[j].discount > bs[i].discount
                        \/ (bs[j].discount = bs[i].discount /\ j < i)}) < 3}

\* the fields of the DM embed
embed_fields(bs) == {bs[i] : i \in top_three(bs)}

\* what the rest of an iteration does once save_to_db has returned True
after_save(vendor_data, rows) ==
    LET bargains == find_bargains(vendor_data, rows)
        matched == {u \in DOMAIN ping_users : user_bargains(bargains, ping_users[u]) # << >>}
    IN  \/ \* the statistics query raises sqlite3.Error
           cycle' = Cycle("stats_failed", vendor_data, << >>, EmptyDict, EmptyDict, {})
        \/ /\ bargains = << >>
           /\ cycle' = Cycle("no_bargains", vendor_data, bargains, EmptyDict, EmptyDict, {})
        \/ \* db_fetch of the users raises
           /\ bargains # << >>
           /\ cycle' = Cycle("users_failed", vendor_data, bargains, EmptyDict, EmptyDict, {})
        \/ \* fetch_user or user.send raises for the users in failed
           /\ bargains # << >>
           /\ \E failed \in SUBSET matched :
                 cycle' = Cycle("notified", vendor_data, bargains, ping_users,
                                [u \in matched \ failed |->
                                    embed_fields(user_bargains(bargains, ping_users[u]))],
                                failed)

\* one iteration of the auto_scrape_vendors loop
auto_scrape_vendors ==
    /\ main_loops["auto_scrape_vendors"] = "running"
    /\ \/ \* scraper.login returns False
          /\ cycle' = Cycle("login_failed", << >>, << >>, EmptyDict, EmptyDict, {})
          /\ UNCHANGED vendorVars
       \/ \* scrape_vendors returns no listing
          /\ cycle' = Cycle("no_data", << >>, << >>, EmptyDict, EmptyDict, {})
          /\ UNCHANGED vendorVars
       \/ \E vendor_data \in SaveInputs \ {<< >>}, outcome \in DbOutcomes :
             /\ vendors' = saved_vendors(vendors, vendor_data, outcome)
             /\ save_result' = [data |-> vendor_data, ret |-> save_returns(vendor_data, outcome),
                                outcome |-> outcome]
             /\ IF save_returns(vendor_data, outcome)
                THEN after_save(vendor_data, vendors')
                ELSE cycle' = Cycle("save_failed", vendor_data, << >>, EmptyDict, EmptyDict, {})
    /\ UNCHANGED <<ledgerVars, refreshVars, now, table, userVars, raceVars, login>>

----------------------------------------------------------------------------
(* The tracker after MVPTracker.__init__ on a fresh installation: mvp.json *)
(* is missing and gets written as {}, tracked_mvps.json is missing.        *)

\* tracker_message, tracker_channel and the loops before on_ready has run
InitRefreshVars ==
    /\ tracker_message = 0
    /\ tracker_channel = FALSE
    /\ messages = {}
    /\ posts = 0
    /\ loop = [l \in Loops |-> "unstarted"]
    /\ tick = [c \in Callers |-> IdleTick]
    /\ ready = [pc |-> "off", runs |-> 0]

\* the tables of ro_bot.db after init_db on a fresh installation, and no
\* call made yet
InitBotVars ==
    /\ vendors = << >>
    /\ save_result = [data |-> << >>, ret |-> FALSE, outcome |-> "none"]
    /\ ping_users = EmptyDict
    /\ reply = Reply("none", 0, 0, "")
    /\ race_schedule = << >>
    /\ announced = << >>
    /\ main_loops = [l \in MainLoops |-> "unstarted"]
    /\ race_event = RaceEvent("none", 0, 0)
    /\ login = [pc |-> "idle", attempt |-> 0, log |-> << >>, ret |-> FALSE]
    /\ cycle = Cycle("none", << >>, << >>, EmptyDict, EmptyDict, {})

InitLedgerVars ==
    /\ mvp_database = EmptyDict
    /\ tracked_mvps = EmptyDict
    /\ mvp_file = File("ok", EmptyDict)
    /\ tracked_file = File("missing", EmptyDict)
    /\ write_failures = 0
    /\ result = Result("init", "", NoTime, "")
    /\ table = [at |-> 0, kind |-> "none", width |-> 0, rows |-> EmptyDict]

Init ==
    /\ InitLedgerVars
    /\ InitRefreshVars
    /\ InitBotVars
    /\ now \in ClockValues

Next ==
    \/ \E c \in AddInputs : add_mvp(c[1], c[2], c[3])
    \/ \E c \in TrackInputs : track(c[1], c[2])
    \/ \E raw \in RawNames : remove(raw)
    \/ \E raw \in RawNames : delete_mvp(raw)
    \/ mvp_list
    \/ restart
    \/ ClockAdvance

Spec == Init /\ [][Next]_vars

\* the refresh loops over the ledger of a fresh installation
InitRefresh ==
    /\ InitLedgerVars
    /\ InitRefreshVars
    /\ InitBotVars
    /\ now = 86430

NextRefresh ==
    \/ initialize_permatracker
    \/ on_ready_time_message
    \/ on_ready_tracker_message
    \/ \E l \in Loops : loop_iteration(l)
    \/ \E ch \in BOOLEAN : refresh_command(ch)
    \/ \E c \in Callers : edit_returns(c)
    \/ \E c \in Callers : send_returns(c)
    \/ \E c \in Callers : send_raises(c)
    \/ delete_message

SpecRefresh == InitRefresh /\ [][NextRefresh]_vars

\* The refresh loops under fair ticking: a running tasks.loop keeps calling
\* its coroutine, an awaited edit or send completes, and the sink does not
\* refuse for ever (an edit does not keep raising other errors, a post that
\* is tried again and again is accepted). A deletion happens only while a
\* message id is left for the re-post.
NextRefreshFair ==
    \/ initialize_permatracker
    \/ on_ready_time_message
    \/ on_ready_tracker_message
    \/ \E l \in Loops : loop_iteration(l)
    \/ \E ch \in BOOLEAN : refresh_command(ch)
    \/ \E c \in Callers : edit_returns(c)
    \/ \E c \in Callers : send_returns(c)
    \/ \E c \in Callers : send_raises(c)
    \/ (posts < MaxPosts /\ delete_message)

FairTicking ==
    /\ \A l \in Loops : WF_vars(loop_iteration(l))
    /\ \A c \in Callers : SF_vars(edit_returns(c) /\ tick'[c].edit # "error")
    /\ \A c \in Callers : SF_vars(send_returns(c))

SpecRefreshFair == InitRefresh /\ [][NextRefreshFair]_vars /\ FairTicking

----------------------------------------------------------------------------
(* The predictor and the renderer on one boss, with a finer clock *)

\* 14:04:30, 14:05:00, 17:00:00, 17:15:30, 17:30:00, 17:30:30 and 17:31:00
\* of day 0, and 15:00:00 of day 1
TableClockValues == {50670, 50700, 61200, 62100, 62130, 63000, 63030, 63060, 140400}

TableAddInputs == {<<"baphomet", 180, 30>>, <<"baphomet", 1500, -10>>}

TableTrackInputs == {<<"baphomet", NoTime>>, <<"Baphomet", <<Num(14), Num(0)>> >>}

TableClockAdvance ==
    /\ \E t \in TableClockValues : t > now /\ now' = t
    /\ UNCHANGED <<ledgerVars, table>>
    /\ UNCHANGED <<refreshVars, botVars>>

InitTable ==
    /\ InitLedgerVars
    /\ InitRefreshVars
    /\ InitBotVars
    /\ now \in TableClockValues

NextTable ==
    \/ \E c \in TableAddInputs : add_mvp(c[1], c[2], c[3])
    \/ \E c \in TableTrackInputs : track(c[1], c[2])
    \/ generate_tracker_table
    \/ TableClockAdvance

SpecTable == InitTable /\ [][NextTable]_vars

\* The vendors table under saves and auto-scrape cycles, with registered users
InitVendors ==
    /\ InitLedgerVars
    /\ InitRefreshVars
    /\ InitBotVars
    /\ now = 86430

\* the registrations made between cycles
CycleUsers == {<<1001, 50>>, <<1002, 55>>, <<1001, 60>>}

NextVendors ==
    \/ \E data \in SaveInputs : save_to_db(data)
    \/ \E c \in CycleUsers : add_user(c[1], c[2])
    \/ main_on_ready
    \/ auto_scrape_vendors

SpecVendors == InitVendors /\ [][NextVendors]_vars

\* The ping_users table under the user commands
InitUsers ==
    /\ InitLedgerVars
    /\ InitRefreshVars
    /\ InitBotVars
    /\ now = 86430

NextUsers ==
    \/ \E u \in UserIds, t \in Thresholds : add_user(u, t)
    \/ \E u \in UserIds, t \in Thresholds : edit_user(u, t)
    \/ \E u \in UserIds : remove_user(u)

SpecUsers == InitUsers /\ [][NextUsers]_vars

\* The race schedule under setrace commands and the one-minute loop
InitRace ==
    /\ InitLedgerVars
    /\ InitRefreshVars
    /\ InitBotVars
    /\ now = 86430

NextRace ==
    \/ main_on_ready
    \/ \E c \in RaceTimes : set_race_time(c[1], c[2])
    \/ check_race_schedule

SpecRace == InitRace /\ [][NextRace]_vars

\* Calls of login; every request of a call returns or raises, so a call
\* that can take a step takes it
InitLogin ==
    /\ InitLedgerVars
    /\ InitRefreshVars
    /\ InitBotVars
    /\ now = 86430

NextLogin ==
    \/ login_call
    \/ login_attempt
    \/ login_gives_up

SpecLogin == InitLogin /\ [][NextLogin]_vars /\ WF_vars(login_attempt) /\ WF_vars(login_gives_up)

\* The renderer's name column: several bosses with names of different
\* lengths, tracked and removed between renders, the clock standing still.

WidthNames == {"dl", "gtb", "eddga", "baphomet"}

WidthAddInputs == {<<n, 60, 10>> : n \in WidthNames}

InitWidth ==
    /\ InitLedgerVars
    /\ InitRefreshVars
    /\ InitBotVars
    /\ now = 86430

NextWidth ==
    \/ \E c \in WidthAddInputs : add_mvp(c[1], c[2], c[3])
    \/ \E n \in WidthNames : track(n, NoTime)
    \/ \E n \in WidthNames : remove(n)
    \/ generate_tracker_table

SpecWidth == InitWidth /\ [][NextWidth]_vars

----------------------------------------------------------------------------
(* Properties of the registry and the ledger *)

TrackSucceeded == result.op = "track" /\ result.msg = "Now tracking"

\* C1: after a successful track(name, t), with or without an HH:MM
\* argument, the record of name has next_spawn_start = last_death + downtime
\* minutes and next_spawn_end = next_spawn_start + spawn_range minutes, for the
\* downtime and spawn_range of name's profile at the call.
C1_TrackComputesWindow ==
    TrackSucceeded =>
        LET r == tracked_mvps[result.name]
            p == mvp_database[result.name]
        IN  /\ r.next_spawn_start = r.last_death + 60 * p.downtime
            /\ r.next_spawn_end = r.next_spawn_start + 60 * p.spawn_range

C1_Witness ==
    /\ TrackSucceeded
    /\ result.tod # NoTime
    /\ mvp_database[result.name].downtime > 0
    /\ mvp_database[result.name].spawn_range > 0

\* C2: in every reachable state every tracking record has window-start =
\* last-death + downtime and window-end = window-start + spawn-range for the
\* downtime and spawn-range now stored in its profile, also after addmvp has
\* updated the profile of a tracked boss.
C2_WindowMatchesCurrentProfile ==
    \A k \in DOMAIN tracked_mvps :
        k \in DOMAIN mvp_database =>
            /\ tracked_mvps[k].next_spawn_start
                   = tracked_mvps[k].last_death + 60 * mvp_database[k].downtime
            /\ tracked_mvps[k].next_spawn_end
                   = tracked_mvps[k].next_spawn_start + 60 * mvp_database[k].spawn_range

\* C6: for a well-formed HH:MM, track records today's date at HH:MM:00 when
\* that is not after now and one day earlier when it is; the recorded death
\* is never in the future, is less than 24 hours old, and its wall clock
\* reads HH:MM.
C6_DeathTimeFromClock ==
    (TrackSucceeded /\ result.tod # NoTime) =>
        LET r == tracked_mvps[result.name]
            called == r.tracking_since
            hh == result.tod[1].val
            mm == result.tod[2].val
            today == called - (called % 86400) + 3600 * hh + 60 * mm
        IN  /\ today <= called => r.last_death = today
            /\ today > called => r.last_death = today - 86400
            /\ r.last_death <= called
            /\ called - r.last_death < 86400
            /\ (r.last_death % 86400) \div 3600 = hh
            /\ (r.last_death % 3600) \div 60 = mm
            /\ r.last_death % 60 = 0

\* a death reported as 23:59 half a minute after midnight lands on yesterday
C6_Witness ==
    /\ TrackSucceeded
    /\ result.tod # NoTime
    /\ tracked_mvps[result.name].last_death
           < tracked_mvps[result.name].tracking_since
               - (tracked_mvps[result.name].tracking_since % 86400)

\* C7: a track command whose time argument is not a valid 24-hour HH:MM
\* returns the format-error message and raises nothing.
C7_BadTimeGetsFormatError ==
    (result.op = "track" /\ result.tod \in BadTimeArgs /\ result.name \in DOMAIN mvp_database)
        => result.msg = "Invalid time format"

\* C10: every boss that has a tracking record also has a profile in the
\* registry, so rendering never looks up a missing profile.
C10_TrackedHasProfile ==
    DOMAIN tracked_mvps \subseteq DOMAIN mvp_database


\* a step that is a command (the clock stands still while a command runs)
CommandStep(op) == now' = now /\ result'.op = op

\* the entries of d other than k are the same in e
SameExcept(d, e, k) ==
    /\ (DOMAIN d) \ {k} = (DOMAIN e) \ {k}
    /\ \A x \in (DOMAIN d) \ {k} : d[x] = e[x]

\* C11: remove(name) deletes only name's tracking record and leaves its
\* profile and every other profile and record unchanged; delete_mvp(name)
\* deletes name's profile and, if present, its record and leaves every other
\* boss unchanged; after remove the boss can be tracked without re-adding it.
C11_RemoveAndDeleteAreDistinct ==
    [][/\ (CommandStep("remove") /\ result'.name \in DOMAIN tracked_mvps) =>
              /\ mvp_database' = mvp_database
              /\ result'.name \notin DOMAIN tracked_mvps'
              /\ SameExcept(tracked_mvps, tracked_mvps', result'.name)
              /\ result'.msg = "Removed from tracker"
              /\ result'.name \in DOMAIN mvp_database'
       /\ (CommandStep("deletemvp") /\ result'.name \in DOMAIN mvp_database) =>
              /\ result'.name \notin DOMAIN mvp_database'
              /\ result'.name \notin DOMAIN tracked_mvps'
              /\ SameExcept(mvp_database, mvp_database', result'.name)
              /\ SameExcept(tracked_mvps, tracked_mvps', result'.name)]_vars

SuccessMessages == {"Added/Updated", "Now tracking", "Removed from tracker", "Deleted from database"}

\* C12: when writing mvp.json or tracked_mvps.json fails during addmvp,
\* track, remove or deletemvp, the command does not return its success
\* message.
C12_FailedWriteIsReported ==
    [][(write_failures' > write_failures
           /\ result'.op \in {"addmvp", "track", "remove", "deletemvp"})
          => result'.msg \notin SuccessMessages]_vars

\* C13: track on a name with no profile, remove on a name with no tracking
\* record and deletemvp on a name with no profile each return an error
\* message and leave the registry, the ledger and both files unchanged.
C13_MissingBossIsNoOp ==
    [][/\ (CommandStep("track") /\ result'.name \notin DOMAIN mvp_database) =>
              /\ result'.msg = "not found in database"
              /\ UNCHANGED <<mvp_database, tracked_mvps, mvp_file, tracked_file>>
       /\ (CommandStep("remove") /\ result'.name \notin DOMAIN tracked_mvps) =>
              /\ result'.msg = "is not being tracked"
              /\ UNCHANGED <<mvp_database, tracked_mvps, mvp_file, tracked_file>>
       /\ (CommandStep("deletemvp") /\ result'.name \notin DOMAIN mvp_database) =>
              /\ result'.msg = "not found in database"
              /\ UNCHANGED <<mvp_database, tracked_mvps, mvp_file, tracked_file>>]_vars

\* remove was refused for a boss that has a profile but no record, while
\* another boss is tracked
C13_Witness ==
    /\ result.op = "remove"
    /\ result.msg = "is not being tracked"
    /\ result.name \in DOMAIN mvp_database
    /\ DOMAIN tracked_mvps # {}

\* C14: every profile in the registry has downtime >= 0 and spawn-range >=
\* 0, so window-end >= window-start holds for every tracking record.
C14_NoNegativeProfile ==
    /\ \A k \in DOMAIN mvp_database :
           mvp_database[k].downtime >= 0 /\ mvp_database[k].spawn_range >= 0
    /\ \A k \in DOMAIN tracked_mvps :
           tracked_mvps[k].next_spawn_end >= tracked_mvps[k].next_spawn_start

\* C15: for a profile with downtime >= 0 and spawn-range >= 0 and every
\* accepted death time, the record produced by track has windowEnd >=
\* windowStart >= lastDeath.
C15_WindowOrdered ==
    (/\ TrackSucceeded
     /\ mvp_database[result.name].downtime >= 0
     /\ mvp_database[result.name].spawn_range >= 0) =>
        LET r == tracked_mvps[result.name] IN
        /\ r.next_spawn_end >= r.next_spawn_start
        /\ r.next_spawn_start >= r.last_death

C15_Witness ==
    /\ TrackSucceeded
    /\ result.tod = NoTime
    /\ mvp_database[result.name].downtime > 0
    /\ mvp_database[result.name].spawn_range > 0
    /\ tracked_mvps[result.name].next_spawn_end > tracked_mvps[result.name].next_spawn_start
    /\ tracked_mvps[result.name].next_spawn_start > tracked_mvps[result.name].last_death

\* names that differ only in letter case
SameBoss(a, b) ==
    \/ a = b
    \/ {a, b} = {"Eddga", "eddga"}
    \/ {a, b} = {"Baphomet", "baphomet"}

\* C17: boss identity is case-insensitive and unique: the registry and the
\* ledger each hold at most one entry per case-folded name, and a command
\* acts on the entry of its name whatever the letter case it is typed in.
C17_CaseInsensitiveIdentity ==
    /\ \A a, b \in DOMAIN mvp_database : SameBoss(a, b) => a = b
    /\ \A a, b \in DOMAIN tracked_mvps : SameBoss(a, b) => a = b
    /\ (result.op = "addmvp") =>
           \E k \in DOMAIN mvp_database : SameBoss(k, result.raw)
    /\ (result.op \in {"track", "deletemvp"} /\ result.msg = "not found in database") =>
           ~ \E k \in DOMAIN mvp_database : SameBoss(k, result.raw)
    /\ TrackSucceeded =>
           /\ \E k \in DOMAIN tracked_mvps : SameBoss(k, result.raw)
           /\ \E k \in DOMAIN mvp_database : SameBoss(k, result.raw)
    /\ (result.op = "remove" /\ result.msg = "is not being tracked") =>
           ~ \E k \in DOMAIN tracked_mvps : SameBoss(k, result.raw)
    /\ (result.op = "remove" /\ result.msg = "Removed from tracker") =>
           ~ \E k \in DOMAIN tracked_mvps : SameBoss(k, result.raw)
    /\ (result.op = "deletemvp" /\ result.msg = "Deleted from database") =>
           ~ \E k \in DOMAIN mvp_database \cup DOMAIN tracked_mvps : SameBoss(k, result.raw)

\* a boss whose profile was last written as "eddga" is tracked as "Eddga"
C17_Witness ==
    /\ TrackSucceeded
    /\ result.raw = "Eddga"
    /\ "eddga" \in DOMAIN tracked_mvps
    /\ mvp_database["eddga"].downtime = 1500

\* C18: a successful track(name, ...) creates name's record or replaces it
\* as a whole, and leaves the records of all other bosses and every profile
\* unchanged.
C18_TrackTouchesOneRecord ==
    [][(CommandStep("track") /\ result'.msg = "Now tracking") =>
          /\ mvp_database' = mvp_database
          /\ result'.name \in DOMAIN tracked_mvps'
          /\ tracked_mvps'[result'.name].tracking_since = now
          /\ SameExcept(tracked_mvps, tracked_mvps', result'.name)]_vars

\* a record was replaced while another boss is tracked
C18_Witness ==
    /\ TrackSucceeded
    /\ Cardinality(DOMAIN tracked_mvps) = 2
    /\ tracked_mvps[result.name].tracking_since = now
    /\ \E k \in DOMAIN tracked_mvps : tracked_mvps[k].tracking_since < now

\* C23: no sequence of commands creates a tracking record whose last death
\* or window is absent: every record in the ledger, and every record the
\* program has written to tracked_mvps.json, has last_death,
\* next_spawn_start and next_spawn_end set.
C23_RecordsAreComplete ==
    /\ \A k \in DOMAIN tracked_mvps :
           /\ tracked_mvps[k].last_death # None
           /\ tracked_mvps[k].next_spawn_start # None
           /\ tracked_mvps[k].next_spawn_end # None
    /\ \A k \in DOMAIN tracked_file.data :
           /\ tracked_file.data[k].last_death # JsonNull
           /\ tracked_file.data[k].next_spawn_start # JsonNull
           /\ tracked_file.data[k].next_spawn_end # JsonNull

\* a record written by track has been saved and loaded again
C23_Witness ==
    /\ result.op = "restart"
    /\ \E k \in DOMAIN tracked_mvps : tracked_mvps[k].last_death >= 0
    /\ DOMAIN tracked_file.data = DOMAIN tracked_mvps

\* C24: with the store writable, after every command mvp.json and
\* tracked_mvps.json encode exactly the registry and the ledger in memory,
\* and loading them at restart reproduces the same profiles and, for every
\* tracked boss, the same instants.
C24_FilesEncodeMemory ==
    /\ [](write_failures = 0 =>
              /\ LoadedDatabase(mvp_file) = mvp_database
              /\ LoadedTracked(tracked_file) = tracked_mvps)
    /\ [][(result'.op = "restart" /\ write_failures' = 0) =>
              /\ mvp_database' = mvp_database
              /\ tracked_mvps' = tracked_mvps]_vars

\* a restart after commands whose writes all succeeded, with two bosses
\* tracked
C24_Witness ==
    /\ result.op = "restart"
    /\ write_failures = 0
    /\ Cardinality(DOMAIN tracked_mvps) = 2
    /\ DOMAIN mvp_database = DOMAIN tracked_mvps

----------------------------------------------------------------------------
(* Properties of the renderer *)

Rendered == result.op = "table" /\ table.kind = "table"

\* C8: the classification is exact and inclusive at both ends: now <
\* windowStart gives Pending, windowStart <= now <= windowEnd gives Open, now >
\* windowEnd gives Overdue, and exactly one of the three applies.
C8_ClassificationExact ==
    Rendered =>
        \A k \in DOMAIN table.rows :
            LET r == tracked_mvps[k] IN
            /\ table.at < r.next_spawn_start => table.rows[k].kind = "Pending"
            /\ (r.next_spawn_start <= table.at /\ table.at <= r.next_spawn_end)
                   => table.rows[k].kind = "Open"
            /\ table.at > r.next_spawn_end => table.rows[k].kind = "Overdue"

\* C9: the remaining-minutes annotation is the floor of the remaining
\* seconds divided by 60, to windowStart in Pending and to windowEnd in Open,
\* also when more than a day remains.
C9_RemainingIsFloor ==
    Rendered =>
        \A k \in DOMAIN table.rows :
            LET r == tracked_mvps[k]
                row == table.rows[k]
                left == IF row.kind = "Pending" THEN r.next_spawn_start - table.at
                        ELSE r.next_spawn_end - table.at
            IN  row.kind \in {"Pending", "Open"} =>
                    /\ 60 * row.minutes <= left
                    /\ left < 60 * row.minutes + 60

\* more than a day remains, and not a whole number of minutes
C9_Witness ==
    /\ Rendered
    /\ \E k \in DOMAIN table.rows :
          /\ table.rows[k].kind = "Pending"
          /\ tracked_mvps[k].next_spawn_start - table.at > 86400
          /\ (tracked_mvps[k].next_spawn_start - table.at) % 60 # 0
          /\ table.rows[k].minutes > 1440


\* C16: with profile baphomet (downtime 180, spawn range 30) and a death
\* recorded as "14:00" when the clock reads 14:05 the same day, the record
\* has windowStart 17:00 and windowEnd 17:30 of that day, and a render at
\* 17:15 shows the boss Open with 15 minutes remaining.
C16_BaphometScenario ==
    /\ (/\ TrackSucceeded
        /\ result.name = "baphomet"
        /\ result.tod = <<Num(14), Num(0)>>
        /\ tracked_mvps["baphomet"].tracking_since = 14 * 3600 + 5 * 60
        /\ mvp_database["baphomet"].downtime = 180
        /\ mvp_database["baphomet"].spawn_range = 30) =>
           /\ tracked_mvps["baphomet"].last_death = 14 * 3600
           /\ tracked_mvps["baphomet"].next_spawn_start = 17 * 3600
           /\ tracked_mvps["baphomet"].next_spawn_end = 17 * 3600 + 30 * 60
    /\ (/\ Rendered
        /\ table.at = 17 * 3600 + 15 * 60
        /\ tracked_mvps["baphomet"].next_spawn_start = 17 * 3600
        /\ tracked_mvps["baphomet"].next_spawn_end = 17 * 3600 + 30 * 60) =>
           table.rows["baphomet"] = [kind |-> "Open", minutes |-> 15]

\* the scenario's record, made at 14:05 for a death at 14:00, rendered at 17:15
C16_Witness ==
    /\ Rendered
    /\ table.at = 17 * 3600 + 15 * 60
    /\ tracked_mvps["baphomet"].tracking_since = 14 * 3600 + 5 * 60
    /\ tracked_mvps["baphomet"].last_death = 14 * 3600
    /\ tracked_mvps["baphomet"].next_spawn_start = 17 * 3600
    /\ table.rows["baphomet"] = [kind |-> "Open", minutes |-> 15]

\* the longest of the names in S, 0 when there is none
Longest(S) == IF S = {} THEN 0 ELSE CHOOSE n \in {Len(k) : k \in S} : \A k \in S : Len(k) <= n

\* a render follows a render, and since the earlier one a boss was tracked
\* whose name is longer than all the names the earlier table showed
RenderAfterLongerName ==
    /\ now' = now
    /\ result'.op = "table"
    /\ table.kind = "table"
    /\ table'.kind = "table"
    /\ DOMAIN table.rows \subseteq DOMAIN table'.rows
    /\ Longest(DOMAIN table'.rows) > Longest(DOMAIN table.rows)

WidthIsMaxOfFourAndLongest ==
    Rendered =>
        /\ table.width >= 4
        /\ \A k \in DOMAIN table.rows : table.width >= Len(k)
        /\ table.width = 4 \/ \E k \in DOMAIN table.rows : table.width = Len(k)

\* C20 as stated: the width of the name column equals max(4, length of the
\* longest tracked name), and tracking a boss with a longer name than all
\* present ones increases the width on the next render.
C20_LongerNameWidens ==
    [][/\ WidthIsMaxOfFourAndLongest'
       /\ RenderAfterLongerName => table'.width > table.width]_vars

\* C20 amended: the width of the name column equals max(4, length of the
\* longest tracked name); tracking a boss with a longer name than all
\* present ones never narrows the column on the next render, and widens it
\* exactly when the new name is longer than 4 characters.
C20_LongerNameWidensPastFour ==
    [][/\ WidthIsMaxOfFourAndLongest'
       /\ RenderAfterLongerName =>
              /\ table'.width >= table.width
              /\ table'.width > table.width <=> Longest(DOMAIN table'.rows) > 4]_vars

\* a table of two rows was rendered again after a longer-named boss joined
C20_Witness ==
    /\ Rendered
    /\ table.width = 8
    /\ Cardinality(DOMAIN table.rows) >= 3
    /\ {"dl", "baphomet"} \subseteq DOMAIN table.rows

----------------------------------------------------------------------------
(* Properties of the refresh loops *)

\* C3: if a tick's edit reports not-found, that tick issues exactly one
\* post, the message the post returns becomes the held reference, and the
\* next tick edits that new reference; no tick issues more than one post.
C3_RepostOncePerTick ==
    /\ [](\A c \in Callers :
             /\ tick[c].sends <= 1
             /\ tick[c].edit = "NotFound" => tick[c].sends = 1)
    /\ [][\A c \in Callers :
             /\ tick'[c].posted \notin {0, tick[c].posted} => tracker_message' = tick'[c].posted
             /\ tick[c].fresh =>
                    \A d \in Callers :
                        (tick[d].pc = "idle" /\ tick'[d].pc = "edit")
                            => tick'[d].target = tick[c].posted]_vars

\* C4: no failure of the presentation sink stops the refresh loop: after a
\* failed edit, or a failed re-post after a not-found edit, the loop still
\* runs its next tick.
C4_LoopSurvivesSinkFailure ==
    \A l \in Loops : loop[l] # "failed"

\* on_ready has run to its end with every send succeeding, and no status
\* message has been deleted since (so no tick has had to post)
StartupCompleted ==
    /\ ready.pc = "off"
    /\ ready.runs = 1
    /\ loop["update_tracker"] # "unstarted"
    /\ messages = 1..posts

\* C19: after startup (on_ready) has completed successfully, exactly one
\* tracker status message has been posted to the permatracker channel and it
\* is the one held in tracker_message; no posted status table is left
\* unreferenced.
C19_StartupPostsOnce ==
    StartupCompleted =>
        /\ posts = 1
        /\ messages = {tracker_message}


\* C5: at most one execution of update_tracker_message is in flight at any
\* time.
C5_OneTickInFlight ==
    Cardinality({c \in Callers : tick[c].pc # "idle"}) <= 1


\* C21: under fair ticking, if the held status message is deleted and the
\* sink from some point on accepts posts, then eventually tracker_message
\* refers to an existing message again.
C21_HeldMessageHealed ==
    (tracker_message # 0 /\ tracker_message \notin messages) ~> (tracker_message \in messages)


\* C22: the refresh command issued in the permatracker channel performs
\* one render and one edit of the held status message (one re-post if that
\* message no longer exists) before it returns; issued in any other channel
\* it performs no edit and no post.
C22_RefreshEditsOnce ==
    LET r == tick["refresh"] IN
    /\ (r.called = "update" /\ r.pc = "idle") =>
           /\ r.edit \in {"ok", "NotFound", "error"}
           /\ r.edit = "NotFound" <=> r.sends = 1
           /\ r.edit = "NotFound" <=> r.posted # 0
           /\ r.edit # "NotFound" => r.sends = 0
    /\ r.called = "refused" => (r.edit = "none" /\ r.sends = 0 /\ r.posted = 0)


----------------------------------------------------------------------------
(* Properties of the scraper and of the commands of main.py *)

\* C25: save_to_db replaces the vendors table as a unit: when it returns
\* True the table holds exactly the given listings and none of the earlier
\* ones; when it returns False (empty input, or a database error during the
\* delete or the insert) the contents of the table are the same as before.
C25_SaveReplacesAsUnit ==
    [][/\ save_result'.ret = TRUE => vendors' = save_result'.data
       /\ save_result'.ret = FALSE => vendors' = vendors
       /\ save_result'.ret = (save_result'.outcome = "ok")]_vars

\* the insert failed over a table that held listings, and the listings are
\* still there
C25_Witness ==
    /\ save_result.outcome = "insert_failed"
    /\ save_result.ret = FALSE
    /\ Len(vendors) = 2
    /\ vendors # save_result.data


\* an edit_user or remove_user command that passed the threshold test and
\* whose statement ran
UserCommandRan ==
    /\ reply'.op \in {"edit_user", "remove_user"}
    /\ reply'.msg \in {"updated", "removed", "User not found in database!"}

\* C27: edit_user and remove_user reply with their success message exactly
\* when the named user was present in ping_users before the command, and
\* with "User not found in database!" exactly when the user was not present.
C27_ReplyTellsPresence ==
    [][UserCommandRan =>
          /\ reply'.msg \in {"updated", "removed"} <=> reply'.user \in DOMAIN ping_users
          /\ reply'.msg = "User not found in database!" <=> reply'.user \notin DOMAIN ping_users]_vars

\* C28: after any sequence of add_user, edit_user and remove_user commands
\* every notify_threshold stored in ping_users is between 50 and 60
\* inclusive; a command given a threshold outside 50-60 is rejected and
\* leaves ping_users unchanged.
C28_ThresholdInRange ==
    /\ [](\A u \in DOMAIN ping_users : 50 <= ping_users[u] /\ ping_users[u] <= 60)
    /\ [][(reply'.op \in {"add_user", "edit_user"}
             /\ (reply'.threshold < 50 \/ reply'.threshold > 60)) =>
              /\ reply'.msg = "Threshold must be between 50-60%"
              /\ ping_users' = ping_users]_vars

\* a threshold above the range was refused for a user whose stored threshold
\* came from an earlier edit
C28_Witness ==
    /\ reply.op = "edit_user"
    /\ reply.threshold = 61
    /\ reply.msg = "Threshold must be between 50-60%"
    /\ reply.user \in DOMAIN ping_users
    /\ ping_users[reply.user] = 60


\* a tick that finds the latest scheduled time reached
RaceDueTick ==
    /\ race_event'.op = "tick"
    /\ now' > now
    /\ race_schedule # << >>
    /\ now' >= latest_race(race_schedule)

\* C26: check_race_schedule announces a given scheduled race time at most
\* once: on the tick where now >= the latest scheduled time it sends the
\* notification and appends a schedule entry exactly one day after that
\* time, so the latest entry strictly increases and later ticks do not
\* announce the same race again.
C26_RaceAnnouncedOnce ==
    /\ [](\A i, j \in 1..Len(announced) : announced[i] = announced[j] => i = j)
    /\ [][RaceDueTick =>
              /\ announced' = Append(announced, latest_race(race_schedule))
              /\ race_schedule' = Append(race_schedule, latest_race(race_schedule) + SecondsPerDay)
              /\ latest_race(race_schedule') > latest_race(race_schedule)]_vars


BelowEightyPercent(x, xs) ==
    LET same == {i \in 1..Len(xs) : xs[i].item_name = x.item_name} IN
    100 * x.price * Cardinality(same) < 80 * price_sum(xs, x.item_name)

\* C30: in an auto-scrape cycle a scraped listing counts as a new bargain
\* exactly when its price is below 80% of the item's average price; a
\* registered user is sent a DM exactly when at least one bargain has a
\* discount >= that user's notify_threshold; every bargain listed in the DM
\* meets that threshold; a failure to DM one user does not stop the DMs to
\* the remaining users.
C30_BargainsAndDms ==
    cycle.stage \in {"no_bargains", "users_failed", "notified"} =>
        /\ \A i \in 1..Len(cycle.data) :
               BelowEightyPercent(cycle.data[i], cycle.data)
                   <=> \E j \in 1..Len(cycle.bargains) :
                           /\ cycle.bargains[j].item_name = cycle.data[i].item_name
                           /\ cycle.bargains[j].price = cycle.data[i].price
        /\ cycle.stage = "notified" =>
               /\ \A u \in DOMAIN cycle.users :
                      (u \in DOMAIN cycle.dms \/ u \in cycle.failed)
                          <=> \E j \in 1..Len(cycle.bargains) :
                                  cycle.bargains[j].discount >= cycle.users[u]
               /\ \A u \in DOMAIN cycle.dms :
                      \A b \in cycle.dms[u] : b.discount >= cycle.users[u]
               /\ DOMAIN cycle.dms \cap cycle.failed = {}

TypeOK == write_failures \in 0..MaxWriteFailures

====
